---- MODULE Spec2Model ----
(***************************************************************************)
(* Model of oxpdf/client.py: the request dispatcher (_request), the file   *)
(* upload helper (_upload_pdf) and the Server-Sent-Events decoder of       *)
(* parse_stream.  Text is modelled as sequences of one-character strings,  *)
(* so that trimming, joining, prefix tests and JSON decoding are computed  *)
(* rather than assumed.                                                    *)
(***************************************************************************)
EXTENDS Integers, Sequences, FiniteSets, TLC

(***************************************************************************)
(* Bounds of the model.                                                    *)
(***************************************************************************)
MaxLines == 4

(***************************************************************************)
(* Text helpers: str.startswith, str.strip, str.lower, str.join, str(int). *)
(***************************************************************************)
Whitespace == {" ", "\n", "\t", "\r"}

Digits == {"0", "1", "2", "3", "4", "5", "6", "7", "8", "9"}

startswith(s, p) == Len(s) >= Len(p) /\ SubSeq(s, 1, Len(p)) = p

RECURSIVE lstrip(_)
lstrip(s) == IF s # <<>> /\ Head(s) \in Whitespace THEN lstrip(Tail(s)) ELSE s

RECURSIVE rstrip(_)
rstrip(s) ==
    IF s # <<>> /\ s[Len(s)] \in Whitespace THEN rstrip(SubSeq(s, 1, Len(s) - 1)) ELSE s

strip(s) == rstrip(lstrip(s))

LowerChar(c) ==
    CASE c = "A" -> "a"
      [] c = "P" -> "p"
      [] c = "D" -> "d"
      [] c = "F" -> "f"
      [] c = "T" -> "t"
      [] c = "X" -> "x"
      [] OTHER -> c

lower(s) == [i \in 1..Len(s) |-> LowerChar(s[i])]

RECURSIVE join(_, _)
join(sep, parts) ==
    IF parts = <<>> THEN <<>>
    ELSE IF Len(parts) = 1 THEN parts[1]
    ELSE parts[1] \o sep \o join(sep, Tail(parts))

DigitChar(n) ==
    CASE n = 0 -> "0" [] n = 1 -> "1" [] n = 2 -> "2" [] n = 3 -> "3" [] n = 4 -> "4"
      [] n = 5 -> "5" [] n = 6 -> "6" [] n = 7 -> "7" [] n = 8 -> "8" [] n = 9 -> "9"

RECURSIVE str_int(_)
str_int(n) == IF n < 10 THEN <<DigitChar(n)>> ELSE str_int(n \div 10) \o <<DigitChar(n % 10)>>

(***************************************************************************)
(* JSON values as decoded by json.loads / Response.json: a tagged tree.    *)
(* t is the Python type, s the text of a str or int, items the elements of *)
(* a list or the ordered key/value pairs of a dict.                        *)
(***************************************************************************)
JStr(s) == [t |-> "str", s |-> s, items |-> <<>>]

JInt(s) == [t |-> "int", s |-> s, items |-> <<>>]

JBool(b) == [t |-> "bool", s |-> IF b THEN <<"T", "r", "u", "e">> ELSE <<"F", "a", "l", "s", "e">>, items |-> <<>>]

JNone == [t |-> "NoneType", s |-> <<"N", "o", "n", "e">>, items |-> <<>>]

JList(items) == [t |-> "list", s |-> <<>>, items |-> items]

JDict(items) == [t |-> "dict", s |-> <<>>, items |-> items]

EmptyDict == JDict(<<>>)

\* dict[key] = value: a repeated key keeps its position and takes the last value
DictSet(items, k, v) ==
    IF \E i \in 1..Len(items) : items[i].k = k
    THEN [i \in 1..Len(items) |-> IF items[i].k = k THEN [k |-> k, v |-> v] ELSE items[i]]
    ELSE Append(items, [k |-> k, v |-> v])

DictHas(d, k) == \E i \in 1..Len(d.items) : d.items[i].k = k

\* dict.get(key, default)
DictGet(d, k, default) ==
    IF DictHas(d, k)
    THEN d.items[CHOOSE i \in 1..Len(d.items) : d.items[i].k = k].v
    ELSE default

(***************************************************************************)
(* json.loads on the JSON subset without escapes, fractions and exponents: *)
(* objects, arrays, strings, integers, true, false, null, and whitespace.  *)
(* Every parser returns [ok, v, i]: success, the value, the next position. *)
(***************************************************************************)
ParseFail == [ok |-> FALSE, v |-> JNone, i |-> 0]

ParseOk(v, i) == [ok |-> TRUE, v |-> v, i |-> i]

RECURSIVE SkipWs(_, _)
SkipWs(s, i) == IF i <= Len(s) /\ s[i] \in Whitespace THEN SkipWs(s, i + 1) ELSE i

RECURSIVE ScanDigits(_, _)
ScanDigits(s, i) == IF i <= Len(s) /\ s[i] \in Digits THEN ScanDigits(s, i + 1) ELSE i

\* the closing quote of a string opened before position i; 0 when the string is invalid
RECURSIVE ScanString(_, _)
ScanString(s, i) ==
    IF i > Len(s) THEN 0
    ELSE IF s[i] = "\"" THEN i
    ELSE IF s[i] \in {"\n", "\t", "\r", "\\"} THEN 0
    ELSE ScanString(s, i + 1)

ParseString(s, i) ==
    LET q == ScanString(s, i)
    IN  IF q = 0 THEN ParseFail ELSE ParseOk(JStr(SubSeq(s, i, q - 1)), q + 1)

ParseNumber(s, i) ==
    LET d == IF s[i] = "-" THEN i + 1 ELSE i
        e == IF d <= Len(s) /\ s[d] = "0" THEN d + 1 ELSE ScanDigits(s, d)
    IN  IF e = d THEN ParseFail ELSE ParseOk(JInt(SubSeq(s, i, e - 1)), e)

ParseLiteral(s, i) ==
    IF startswith(SubSeq(s, i, Len(s)), <<"n", "u", "l", "l">>) THEN ParseOk(JNone, i + 4)
    ELSE IF startswith(SubSeq(s, i, Len(s)), <<"t", "r", "u", "e">>) THEN ParseOk(JBool(TRUE), i + 4)
    ELSE IF startswith(SubSeq(s, i, Len(s)), <<"f", "a", "l", "s", "e">>) THEN ParseOk(JBool(FALSE), i + 5)
    ELSE ParseFail

RECURSIVE ParseValue(_, _)
RECURSIVE ParseArray(_, _, _)
RECURSIVE ParseObject(_, _, _)

\* the value that starts at position i, after optional whitespace
ParseValue(s, i) ==
    LET j == SkipWs(s, i)
    IN  IF j > Len(s) THEN ParseFail
        ELSE IF s[j] = "{" THEN
            (IF SkipWs(s, j + 1) <= Len(s) /\ s[SkipWs(s, j + 1)] = "}"
             THEN ParseOk(EmptyDict, SkipWs(s, j + 1) + 1)
             ELSE ParseObject(s, j + 1, <<>>))
        ELSE IF s[j] = "[" THEN
            (IF SkipWs(s, j + 1) <= Len(s) /\ s[SkipWs(s, j + 1)] = "]"
             THEN ParseOk(JList(<<>>), SkipWs(s, j + 1) + 1)
             ELSE ParseArray(s, j + 1, <<>>))
        ELSE IF s[j] = "\"" THEN ParseString(s, j + 1)
        ELSE IF s[j] \in Digits \cup {"-"} THEN ParseNumber(s, j)
        ELSE ParseLiteral(s, j)

\* the elements of an array from position i on, acc being those already read
ParseArray(s, i, acc) ==
    LET r == ParseValue(s, i)
        j == SkipWs(s, r.i)
    IN  IF ~r.ok \/ j > Len(s) THEN ParseFail
        ELSE IF s[j] = "]" THEN ParseOk(JList(Append(acc, r.v)), j + 1)
        ELSE IF s[j] = "," THEN ParseArray(s, j + 1, Append(acc, r.v))
        ELSE ParseFail

\* the members of an object from position i on, acc being those already read
ParseObject(s, i, acc) ==
    LET k == SkipWs(s, i)
        key == IF k <= Len(s) /\ s[k] = "\"" THEN ParseString(s, k + 1) ELSE ParseFail
        c == SkipWs(s, key.i)
        r == IF key.ok /\ c <= Len(s) /\ s[c] = ":" THEN ParseValue(s, c + 1) ELSE ParseFail
        j == SkipWs(s, r.i)
    IN  IF ~r.ok \/ j > Len(s) THEN ParseFail
        ELSE IF s[j] = "}" THEN ParseOk(JDict(DictSet(acc, key.v.s, r.v)), j + 1)
        ELSE IF s[j] = "," THEN ParseObject(s, j + 1, DictSet(acc, key.v.s, r.v))
        ELSE ParseFail

\* json.loads(s): [ok, v]; ok is FALSE where the call raises json.JSONDecodeError
json_loads(s) ==
    LET r == ParseValue(s, 1)
    IN  IF r.ok /\ SkipWs(s, r.i) > Len(s) THEN [ok |-> TRUE, v |-> r.v]
        ELSE [ok |-> FALSE, v |-> JNone]

(***************************************************************************)
(* str() and repr() of decoded values.                                     *)
(***************************************************************************)
RECURSIVE repr(_)
RECURSIVE reprs(_)
RECURSIVE repr_pairs(_)

repr(v) ==
    CASE v.t = "str" -> <<"'">> \o v.s \o <<"'">>
      [] v.t = "list" -> <<"[">> \o join(<<",", " ">>, reprs(v.items)) \o <<"]">>
      [] v.t = "dict" -> <<"{">> \o join(<<",", " ">>, repr_pairs(v.items)) \o <<"}">>
      [] OTHER -> v.s

reprs(items) == IF items = <<>> THEN <<>> ELSE <<repr(Head(items))>> \o reprs(Tail(items))

repr_pairs(items) ==
    IF items = <<>> THEN <<>>
    ELSE <<repr(JStr(Head(items).k)) \o <<":", " ">> \o repr(Head(items).v)>> \o repr_pairs(Tail(items))

str(v) == IF v.t = "str" THEN v.s ELSE repr(v)

(***************************************************************************)
(* Optional values (None or a value), used for OxPDFError.status_code and  *)
(* OxPDFError.response_body.                                               *)
(***************************************************************************)
None == <<>>

Some(x) == <<x>>

(***************************************************************************)
(* The environment: files on disk, the server's answers, transport         *)
(* failures and the lines of the event stream.                             *)
(***************************************************************************)
FileNames ==
    { <<"a", ".", "p", "d", "f">>,      \* a.pdf
      <<"A", ".", "P", "D", "F">>,      \* A.PDF
      <<"a", ".", "t", "x", "t">>,      \* a.txt
      <<"a">> }                         \* a

\* exists: Path.exists(); readable: Path.open("rb") and read() succeed
\* (an existing directory or a file without read permission is not readable)
Paths ==
    { [name |-> n, exists |-> e, readable |-> r] :
        n \in FileNames, e \in BOOLEAN, r \in BOOLEAN } \ 
    { [name |-> n, exists |-> FALSE, readable |-> TRUE] : n \in FileNames }

NoPath == [name |-> <<>>, exists |-> FALSE, readable |-> FALSE]

StatusCodes == {200, 204, 404, 500}

Bodies ==
    { <<>>,
      \* {"detail":"X"}
      <<"{", "\"", "d", "e", "t", "a", "i", "l", "\"", ":", "\"", "X", "\"", "}">>,
      \* {"detail":[{"msg":"a"},{"msg":"b"}]}
      <<"{", "\"", "d", "e", "t", "a", "i", "l", "\"", ":", "[", "{", "\"", "m", "s", "g", "\"", ":", "\"", "a", "\"", "}", ",", "{", "\"", "m", "s", "g", "\"", ":", "\"", "b", "\"", "}", "]", "}">>,
      \* {"detail":["a","b"]}
      <<"{", "\"", "d", "e", "t", "a", "i", "l", "\"", ":", "[", "\"", "a", "\"", ",", "\"", "b", "\"", "]", "}">>,
      \* {"detail":[{"msg":"a"},{"loc":1}]}
      <<"{", "\"", "d", "e", "t", "a", "i", "l", "\"", ":", "[", "{", "\"", "m", "s", "g", "\"", ":", "\"", "a", "\"", "}", ",", "{", "\"", "l", "o", "c", "\"", ":", "1", "}", "]", "}">>,
      \* {"error":"E"}
      <<"{", "\"", "e", "r", "r", "o", "r", "\"", ":", "\"", "E", "\"", "}">>,
      \* {"detail":5}
      <<"{", "\"", "d", "e", "t", "a", "i", "l", "\"", ":", "5", "}">>,
      \* {"n":1}
      <<"{", "\"", "n", "\"", ":", "1", "}">>,
      \* [1]
      <<"[", "1", "]">>,
      \* oops
      <<"o", "o", "p", "s">> }

\* the reason phrase: "OK" with a success status, absent or present with a failure
Reasons == { <<>>, <<"N", "o", "t", " ", "F", "o", "u", "n", "d">>, <<"O", "K">> }

Responses ==
    { r \in [status : StatusCodes, text : Bodies, reason : Reasons] :
        (r.status < 400) <=> (r.reason = <<"O", "K">>) }

NoResponse == [status |-> 0, text |-> <<>>, reason |-> <<>>]

\* str(e) of a requests.RequestException
TransportMessages == { <<"t", "i", "m", "e", "d", " ", "o", "u", "t">> }

\* what Session.request / Session.post does: raise RequestException or return a response
SendOutcomes ==
    { [raised |-> TRUE, e |-> m, resp |-> NoResponse] : m \in TransportMessages } \cup
    { [raised |-> FALSE, e |-> <<>>, resp |-> r] : r \in Responses }

\* what Session.post(stream=True) does: as above, but the body of a success
\* response is not read by the call, it is the event stream
StreamOutcomes ==
    { out \in SendOutcomes : ~out.raised /\ out.resp.status < 400 => out.resp.text = <<>> }

\* the lines Response.iter_lines(decode_unicode=True) can produce
Lines ==
    { <<>>,
      \* "event: page "
      <<"e", "v", "e", "n", "t", ":", " ", "p", "a", "g", "e", " ">>,
      \* "data: {\"n\":1}"
      <<"d", "a", "t", "a", ":", " ", "{", "\"", "n", "\"", ":", "1", "}">>,
      \* "data: not-json"
      <<"d", "a", "t", "a", ":", " ", "n", "o", "t", "-", "j", "s", "o", "n">>,
      \* "data:[1,"
      <<"d", "a", "t", "a", ":", "[", "1", ",">>,
      \* "data: 1] "
      <<"d", "a", "t", "a", ":", " ", "1", "]", " ">>,
      \* "data:"
      <<"d", "a", "t", "a", ":">>,
      \* ": x"
      <<":", " ", "x">> }

(***************************************************************************)
(* Results of an operation as seen by the caller.                          *)
(***************************************************************************)
NoResult ==
    [kind |-> "none", message |-> <<>>, status_code |-> None, response_body |-> None, value |-> JNone]

Return(v) ==
    [kind |-> "return", message |-> <<>>, status_code |-> None, response_body |-> None, value |-> v]

\* raise <kind>(message); OxPDFError.__init__ also stores status_code and response_body
Raise(kind, message, status_code, response_body) ==
    [kind |-> kind, message |-> message, status_code |-> status_code,
     response_body |-> response_body, value |-> JNone]

(***************************************************************************)
(* Client._request                                                         *)
(***************************************************************************)
\* Response.ok: raise_for_status() raises for 400 <= status < 600
resp_ok(resp) == ~(400 <= resp.status /\ resp.status < 600)

\* faulty variant: the empty-body test is missing
has_content_always(resp) == TRUE

\* bool(resp.content)
has_content(resp) == resp.text # <<>>

\* faulty variant: a failed send is attempted a second time
session_calls_retry(out) == IF out.raised THEN 2 ELSE 1

\* the number of calls of Session.request / Session.post for one outcome: no retry loop
session_calls(out) == 1

\* str(d.get("msg", d)) for one element of a detail list; ok is FALSE where d.get raises
detail_item(d) ==
    IF d.t # "dict" THEN [ok |-> FALSE, s |-> <<>>]
    ELSE [ok |-> TRUE, s |-> str(DictGet(d, <<"m", "s", "g">>, d))]

\* the message of the error raised for a non-success response
error_detail(resp) ==
    LET fallback ==
            IF resp.text # <<>> THEN resp.text
            ELSE IF resp.reason # <<>> THEN resp.reason
            ELSE <<"H", "T", "T", "P", " ">> \o str_int(resp.status)
        body == json_loads(resp.text)
        detail == DictGet(body.v, <<"d", "e", "t", "a", "i", "l">>,
                          DictGet(body.v, <<"e", "r", "r", "o", "r">>, JStr(resp.text)))
        parts == [i \in 1..Len(detail.items) |-> detail_item(detail.items[i])]
    IN  IF ~body.ok \/ body.v.t # "dict" THEN fallback
        ELSE IF detail.t = "list" THEN
            (IF \E i \in 1..Len(parts) : ~parts[i].ok THEN fallback
             ELSE join(<<";", " ">>, [i \in 1..Len(parts) |-> parts[i].s]))
        ELSE str(detail)

\* _request after the call of Session.request with outcome out
request(out) ==
    IF out.raised THEN Raise("OxPDFError", out.e, None, None)
    ELSE IF out.resp.status = 204 THEN Return(EmptyDict)
    ELSE IF ~resp_ok(out.resp) THEN
        Raise("OxPDFError", error_detail(out.resp), Some(out.resp.status), Some(out.resp.text))
    ELSE IF ~has_content(out.resp) THEN Return(EmptyDict)
    ELSE IF json_loads(out.resp.text).ok THEN Return(json_loads(out.resp.text).v)
    ELSE Raise("JSONDecodeError", <<"E", "x", "p", "e", "c", "t", "i", "n", "g", " ", "v", "a", "l", "u", "e">>, None, None)

(***************************************************************************)
(* Local validation of _upload_pdf and parse_stream                        *)
(***************************************************************************)
\* Path.suffix: the name from its last dot on, empty without a dot inside the name
suffix(name) ==
    LET dots == {i \in 1..Len(name) : name[i] = "."}
        last == CHOOSE i \in dots : \A j \in dots : j <= i
    IN  IF dots = {} THEN <<>>
        ELSE IF last = 1 \/ last = Len(name) THEN <<>>
        ELSE SubSeq(name, last, Len(name))

\* faulty variant: the extension is checked before the existence of the path
local_failure_suffix_first(path) ==
    IF lower(suffix(path.name)) # <<".", "p", "d", "f">> THEN
        Raise("ValueError", <<"F", "i", "l", "e", " ", "m", "u", "s", "t", " ", "b", "e", " ", "a", " ", "P", "D", "F">>, None, None)
    ELSE IF ~path.exists THEN
        Raise("FileNotFoundError", <<"F", "i", "l", "e", " ", "n", "o", "t", " ", "f", "o", "u", "n", "d", ":", " ">> \o path.name, None, None)
    ELSE IF ~path.readable THEN
        Raise("OSError", <<"u", "n", "r", "e", "a", "d", "a", "b", "l", "e">>, None, None)
    ELSE NoResult

\* the failure raised before any request is built; kind "none" when the file was read
local_failure(path) ==
    IF ~path.exists THEN
        Raise("FileNotFoundError", <<"F", "i", "l", "e", " ", "n", "o", "t", " ", "f", "o", "u", "n", "d", ":", " ">> \o path.name, None, None)
    ELSE IF lower(suffix(path.name)) # <<".", "p", "d", "f">> THEN
        Raise("ValueError", <<"F", "i", "l", "e", " ", "m", "u", "s", "t", " ", "b", "e", " ", "a", " ", "P", "D", "F">>, None, None)
    ELSE IF ~path.readable THEN
        Raise("OSError", <<"u", "n", "r", "e", "a", "d", "a", "b", "l", "e">>, None, None)
    ELSE NoResult

(***************************************************************************)
(* The event decoder of parse_stream                                       *)
(***************************************************************************)
EventPrefix == <<"e", "v", "e", "n", "t", ":">>

DataPrefix == <<"d", "a", "t", "a", ":">>

DefaultEventType == <<"m", "e", "s", "s", "a", "g", "e">>

\* faulty variant: the data lines are joined without a separator
data_raw_concat(data_lines) == join(<<>>, data_lines)

\* raw = "\n".join(data_lines)
data_raw(data_lines) == join(<<"\n">>, data_lines)

\* json.loads(raw), or {"raw": raw} on json.JSONDecodeError
decode_payload(raw) ==
    IF json_loads(raw).ok THEN json_loads(raw).v
    ELSE JDict(<<[k |-> <<"r", "a", "w">>, v |-> JStr(raw)]>>)

\* one iteration of the loop: the locals after it and the events it yields
decode_line(line, et, dl) ==
    IF startswith(line, EventPrefix) THEN
        [event_type |-> strip(SubSeq(line, 7, Len(line))), data_lines |-> dl, yields |-> <<>>]
    ELSE IF startswith(line, DataPrefix) THEN
        [event_type |-> et, data_lines |-> Append(dl, strip(SubSeq(line, 6, Len(line)))), yields |-> <<>>]
    ELSE IF line = <<>> /\ dl # <<>> THEN
        [event_type |-> et, data_lines |-> dl,
         yields |-> <<[event |-> et, data |-> decode_payload(data_raw(dl))]>>]
    ELSE [event_type |-> et, data_lines |-> dl, yields |-> <<>>]

\* faulty variant: the event type survives the emission
after_yield_keep_type(et, dl) == [event_type |-> et, data_lines |-> <<>>]

\* the statements after the yield, run when the generator is resumed
after_yield(et, dl) == [event_type |-> DefaultEventType, data_lines |-> <<>>]

\* faulty variant: pending data is flushed as a last event
at_stream_end_flush(et, dl) ==
    IF dl # <<>> THEN <<[event |-> et, data |-> decode_payload(join(<<"\n">>, dl))]>> ELSE <<>>

\* the events yielded when iter_lines is exhausted: the loop just ends
at_stream_end(et, dl) == <<>>

\* faulty variant: the decoder reads ahead while suspended at the yield
may_read_eager(pc) == pc \in {"running", "yielded"}

\* the generator body runs, and reads lines, only inside a call of next()
may_read(pc) == pc = "running"

(***************************************************************************)
(* State: one invocation of a public operation of the client.              *)
(*   op            the operation invoked, "none" before the call           *)
(*   file_path     the file argument of a file-based operation             *)
(*   http_requests the number of HTTP requests issued so far               *)
(*   sent          the outcome of the HTTP call, once it was made          *)
(*   result        what the caller got: nothing yet, a value or a failure  *)
(*   gen_pc        position of the parse_stream generator                  *)
(*   next_calls    the number of next() calls made by the consumer         *)
(*   event_type, data_lines   the decoder's locals                         *)
(*   consumed      the lines read from the response so far                 *)
(*   delivered     the events handed to the consumer so far                *)
(***************************************************************************)
VARIABLES op, file_path, http_requests, sent, result,
          gen_pc, next_calls, event_type, data_lines, consumed, delivered

vars == <<op, file_path, http_requests, sent, result,
          gen_pc, next_calls, event_type, data_lines, consumed, delivered>>

genvars == <<gen_pc, next_calls, event_type, data_lines, consumed, delivered>>

\* operations that pass their arguments to _request and return its result
DirectOps == {"job_status", "list_files", "create_schema", "delete_schema"}

\* operations that go through _upload_pdf
UploadOps == {"parse", "upload", "validate", "extract_images"}

Init ==
    /\ op = "none"
    /\ file_path = NoPath
    /\ http_requests = 0
    /\ sent = None
    /\ result = NoResult
    /\ gen_pc = "none"
    /\ next_calls = 0
    /\ event_type = <<>>
    /\ data_lines = <<>>
    /\ consumed = <<>>
    /\ delivered = <<>>

\* job_status, list_files, create_schema, ...: one call of _request
call_request ==
    /\ op = "none"
    /\ \E o \in DirectOps, out \in SendOutcomes :
        /\ op' = o
        /\ http_requests' = http_requests + session_calls(out)
        /\ sent' = Some(out)
        /\ result' = request(out)
    /\ UNCHANGED <<file_path, genvars>>

\* parse, upload, validate, extract_images: _upload_pdf, then _request
call_upload_pdf ==
    /\ op = "none"
    /\ \E o \in UploadOps, path \in Paths, out \in SendOutcomes :
        /\ op' = o
        /\ file_path' = path
        /\ IF local_failure(path).kind # "none"
           THEN /\ result' = local_failure(path)
                /\ UNCHANGED <<http_requests, sent>>
           ELSE /\ http_requests' = http_requests + session_calls(out)
                /\ sent' = Some(out)
                /\ result' = request(out)
    /\ UNCHANGED genvars

\* parse_stream(file_path): the call only creates the generator
call_parse_stream ==
    /\ op = "none"
    /\ \E path \in Paths :
        /\ op' = "parse_stream"
        /\ file_path' = path
    /\ gen_pc' = "created"
    /\ UNCHANGED <<http_requests, sent, result, next_calls, event_type, data_lines, consumed, delivered>>

\* first next(): validation, the POST and the status check, up to the loop
gen_start ==
    /\ gen_pc = "created"
    /\ next_calls' = next_calls + 1
    /\ \E out \in StreamOutcomes :
        IF local_failure(file_path).kind # "none"
        THEN /\ result' = local_failure(file_path)
             /\ gen_pc' = "raised"
             /\ UNCHANGED <<http_requests, sent, event_type, data_lines>>
        ELSE /\ http_requests' = http_requests + session_calls(out)
             /\ sent' = Some(out)
             /\ IF out.raised
                THEN /\ result' = Raise("OxPDFError", out.e, None, None)
                     /\ gen_pc' = "raised"
                     /\ UNCHANGED <<event_type, data_lines>>
                ELSE IF ~resp_ok(out.resp)
                THEN /\ result' = Raise("OxPDFError", out.resp.text,
                                        Some(out.resp.status), Some(out.resp.text))
                     /\ gen_pc' = "raised"
                     /\ UNCHANGED <<event_type, data_lines>>
                ELSE /\ event_type' = DefaultEventType
                     /\ data_lines' = <<>>
                     /\ gen_pc' = "running"
                     /\ UNCHANGED result
    /\ UNCHANGED <<op, file_path, consumed, delivered>>

\* one iteration of the loop over iter_lines, suspended at the yield if it yields
gen_read_line ==
    /\ may_read(gen_pc)
    /\ Len(consumed) < MaxLines
    /\ \E line \in Lines :
        LET d == decode_line(line, event_type, data_lines)
        IN  /\ consumed' = Append(consumed, line)
            /\ event_type' = d.event_type
            /\ data_lines' = d.data_lines
            /\ delivered' = delivered \o d.yields
            /\ gen_pc' = IF d.yields # <<>> THEN "yielded" ELSE "running"
    /\ UNCHANGED <<op, file_path, http_requests, sent, result, next_calls>>

\* next() on the suspended generator: the statements after the yield
gen_resume ==
    /\ gen_pc = "yielded"
    /\ next_calls' = next_calls + 1
    /\ event_type' = after_yield(event_type, data_lines).event_type
    /\ data_lines' = after_yield(event_type, data_lines).data_lines
    /\ gen_pc' = "running"
    /\ UNCHANGED <<op, file_path, http_requests, sent, result, consumed, delivered>>

\* iter_lines is exhausted: the generator returns
gen_stream_end ==
    /\ gen_pc = "running"
    /\ delivered' = delivered \o at_stream_end(event_type, data_lines)
    /\ gen_pc' = "done"
    /\ result' = Return(JNone)
    /\ UNCHANGED <<op, file_path, http_requests, sent, next_calls, event_type, data_lines, consumed>>

\* iter_lines raises a requests.RequestException while reading the body
gen_stream_error ==
    /\ gen_pc = "running"
    /\ \E m \in TransportMessages : result' = Raise("RequestException", m, None, None)
    /\ gen_pc' = "raised"
    /\ UNCHANGED <<op, file_path, http_requests, sent, next_calls, event_type, data_lines, consumed, delivered>>

Next ==
    \/ call_request
    \/ call_upload_pdf
    \/ call_parse_stream
    \/ gen_start
    \/ gen_read_line
    \/ gen_resume
    \/ gen_stream_end
    \/ gen_stream_error

Spec == Init /\ [][Next]_vars

(***************************************************************************)
(* Vocabulary of the properties, stated over the lines read so far.        *)
(***************************************************************************)
IsDataLine(l) == startswith(l, DataPrefix)

IsEventLine(l) == startswith(l, EventPrefix)

\* line i is a blank line that arrives while at least one data: line is pending
Terminates(ls, i) ==
    /\ ls[i] = <<>>
    /\ \E j \in 1..(i - 1) : IsDataLine(ls[j]) /\ \A k \in (j + 1)..(i - 1) : ls[k] # <<>>

Terminators(ls) == {i \in 1..Len(ls) : Terminates(ls, i)}

\* the positions of the terminating blank lines, in stream order
RECURSIVE Ascending(_)
Ascending(S) ==
    IF S = {} THEN <<>>
    ELSE LET m == CHOOSE x \in S : \A y \in S : x <= y IN <<m>> \o Ascending(S \ {m})

Largest(S) == CHOOSE x \in S : \A y \in S : y <= x

Trimmed(line, prefix) == strip(SubSeq(line, Len(prefix) + 1, Len(line)))

\* the trimmed remainders of the data: lines between the last blank line before i and i
PendingAt(ls, i) ==
    LET first == 1 + Largest({0} \cup {k \in 1..(i - 1) : ls[k] = <<>>})
        pos == Ascending({k \in first..(i - 1) : IsDataLine(ls[k])})
    IN  [n \in 1..Len(pos) |-> Trimmed(ls[pos[n]], DataPrefix)]

\* the type in force at i: that of the last event: line since the previous emission
TypeAt(ls, i) ==
    LET first == 1 + Largest({0} \cup {k \in 1..(i - 1) : Terminates(ls, k)})
        ev == {k \in first..(i - 1) : IsEventLine(ls[k])}
    IN  IF ev = {} THEN <<"m", "e", "s", "s", "a", "g", "e">>
        ELSE Trimmed(ls[Largest(ev)], EventPrefix)

PayloadAt(ls, i) ==
    LET text == join(<<"\n">>, PendingAt(ls, i))
    IN  IF json_loads(text).ok THEN json_loads(text).v
        ELSE JDict(<<[k |-> <<"r", "a", "w">>, v |-> JStr(text)]>>)

\* the last dot of the name is followed by pdf, in any case
HasPdfExtension(name) ==
    LET n == Len(name)
    IN  /\ n >= 5
        /\ name[n - 3] = "."
        /\ name[n - 2] \in {"p", "P"}
        /\ name[n - 1] \in {"d", "D"}
        /\ name[n] \in {"f", "F"}

FileOps == UploadOps \cup {"parse_stream"}

\* the operation has run its code (a generator only from its first next() on)
Started == op # "none" /\ gen_pc # "created"

Answered == sent # None /\ ~sent[1].raised

IsSuccess(status) == status >= 200 /\ status < 400

(***************************************************************************)
(* C1: for every sequence of lines fed to the decoder, the yielded events  *)
(* are exactly one per blank line that arrives while data is pending, in   *)
(* stream order, and each payload is the JSON decoding of the pending      *)
(* trimmed data remainders joined with newlines, or {raw: joined} when     *)
(* the joined text is not valid JSON.                                      *)
(***************************************************************************)
C1_EventPerTerminatedFrame ==
    LET T == Ascending(Terminators(consumed))
    IN  [n \in 1..Len(delivered) |-> delivered[n].data]
            = [n \in 1..Len(T) |-> PayloadAt(consumed, T[n])]

\* two frames were decoded: a JSON object, then the fallback for "not-json"
C1_Witness ==
    /\ Len(delivered) = 2
    /\ delivered[1].data = JDict(<<[k |-> <<"n">>, v |-> JInt(<<"1">>)]>>)
    /\ delivered[2].data =
         JDict(<<[k |-> <<"r", "a", "w">>, v |-> JStr(<<"n", "o", "t", "-", "j", "s", "o", "n">>)]>>)

(***************************************************************************)
(* C2: every non-success response with body {"detail": "X"} raises an API  *)
(* error whose message is exactly X, for dispatcher operations and for     *)
(* parse_stream alike.                                                     *)
(***************************************************************************)
C2_DetailStringIsMessage ==
    LET body == json_loads(sent[1].resp.text)
    IN  (/\ Started /\ Answered /\ ~IsSuccess(sent[1].resp.status)
         /\ body.ok /\ body.v.t = "dict" /\ Len(body.v.items) = 1
         /\ body.v.items[1].k = <<"d", "e", "t", "a", "i", "l">>
         /\ body.v.items[1].v.t = "str")
        => (result.kind = "OxPDFError" /\ result.message = body.v.items[1].v.s)

(***************************************************************************)
(* C3: for a non-success response handled by the dispatcher whose detail   *)
(* field is a sequence, the message is the elements joined with "; ",      *)
(* each contributing its msg sub-field if it has one and its string form   *)
(* otherwise (also when the element is not a mapping).                     *)
(***************************************************************************)
C3_DetailListJoined ==
    LET body == json_loads(sent[1].resp.text)
        detail == DictGet(body.v, <<"d", "e", "t", "a", "i", "l">>, JNone)
        part(d) == IF d.t = "dict" /\ DictHas(d, <<"m", "s", "g">>)
                   THEN str(DictGet(d, <<"m", "s", "g">>, JNone))
                   ELSE str(d)
    IN  (/\ op \in DirectOps \cup UploadOps /\ Answered /\ ~IsSuccess(sent[1].resp.status)
         /\ body.ok /\ body.v.t = "dict" /\ detail.t = "list")
        => (/\ result.kind = "OxPDFError"
            /\ result.message =
                 join(<<";", " ">>, [i \in 1..Len(detail.items) |-> part(detail.items[i])]))

(***************************************************************************)
(* C4: every failure after local file validation reaches the caller as     *)
(* OxPDFError, which carries a status code and the raw body if and only    *)
(* if the server answered with a non-success status; transport failures,   *)
(* also while decoding a success body or reading the event stream, are     *)
(* OxPDFError without a status code.                                       *)
(***************************************************************************)
C4_SingleErrorKind ==
    result.kind \notin {"none", "return", "FileNotFoundError", "ValueError"}
    => /\ result.kind = "OxPDFError"
       /\ (result.status_code # None) <=> (Answered /\ ~IsSuccess(sent[1].resp.status))
       /\ result.status_code # None =>
            /\ result.status_code = Some(sent[1].resp.status)
            /\ result.response_body = Some(sent[1].resp.text)

(***************************************************************************)
(* C5: a file-based operation given a path that does not exist fails with  *)
(* file-not-found, given an existing path whose extension is not .pdf (in  *)
(* any case) fails with invalid-argument, and issues no HTTP request in    *)
(* either case.                                                            *)
(***************************************************************************)
C5_LocalValidation ==
    (op \in FileOps /\ Started)
    => /\ ~file_path.exists
            => (result.kind = "FileNotFoundError" /\ http_requests = 0 /\ sent = None)
       /\ (file_path.exists /\ ~HasPdfExtension(file_path.name))
            => (result.kind = "ValueError" /\ http_requests = 0 /\ sent = None)

\* parse_stream was iterated on an existing a.txt and failed with ValueError
C5_Witness ==
    /\ op = "parse_stream"
    /\ file_path.exists
    /\ ~HasPdfExtension(file_path.name)
    /\ result.kind = "ValueError"

(***************************************************************************)
(* C6: when the line stream ends while data lines are pending, the decoder *)
(* terminates without an event for them: the number of events equals the   *)
(* number of frames terminated by a blank line.                            *)
(***************************************************************************)
C6_NoFinalFlush ==
    gen_pc = "done" => Len(delivered) = Cardinality(Terminators(consumed))

\* the stream ended after one complete frame, with data still pending
C6_Witness ==
    /\ gen_pc = "done"
    /\ data_lines # <<>>
    /\ Len(delivered) = 1
    /\ IsDataLine(consumed[Len(consumed)])

(***************************************************************************)
(* C7: through the dispatcher, a response with status 204, or with a       *)
(* success status and an empty body, returns an empty mapping and never    *)
(* raises; a non-success status with an empty body raises the API error.   *)
(***************************************************************************)
C7_EmptySuccessIsEmptyMapping ==
    (op \in DirectOps \cup UploadOps /\ Answered)
    => /\ (sent[1].resp.status = 204
             \/ (IsSuccess(sent[1].resp.status) /\ sent[1].resp.text = <<>>))
            => result = Return(EmptyDict)
       /\ (~IsSuccess(sent[1].resp.status) /\ sent[1].resp.text = <<>>)
            => (result.kind = "OxPDFError" /\ result.status_code = Some(sent[1].resp.status))

\* a 200 response with an empty body came back as the empty mapping
C7_Witness ==
    /\ op \in DirectOps \cup UploadOps
    /\ Answered
    /\ sent[1].resp.status = 200
    /\ sent[1].resp.text = <<>>
    /\ result = Return(EmptyDict)

(***************************************************************************)
(* C8 as stated: an operation issues at most one HTTP request, exactly one *)
(* when local validation passes and none otherwise, and never repeats a    *)
(* request after a failure.                                                *)
(***************************************************************************)
C8_OneRequestWhenValid ==
    /\ http_requests <= 1
    /\ Started =>
        http_requests =
            IF op \in DirectOps \/ (file_path.exists /\ HasPdfExtension(file_path.name))
            THEN 1 ELSE 0

(***************************************************************************)
(* C8 amended: an operation issues at most one HTTP request, exactly one   *)
(* when local validation passes and the file could be read, none           *)
(* otherwise, and never repeats a request after a transport failure or a   *)
(* non-success status: a failed attempt is one reported failure.           *)
(***************************************************************************)
C8_OneRequestWhenRead ==
    /\ http_requests <= 1
    /\ Started =>
        /\ http_requests =
            IF op \in DirectOps
                 \/ (file_path.exists /\ HasPdfExtension(file_path.name) /\ file_path.readable)
            THEN 1 ELSE 0
        /\ (sent # None /\ (sent[1].raised \/ ~IsSuccess(sent[1].resp.status)))
            => (http_requests = 1 /\ result.kind = "OxPDFError")

\* the single attempt failed in the transport and was reported as such
C8_Witness ==
    /\ sent # None
    /\ sent[1].raised
    /\ http_requests = 1
    /\ result.kind = "OxPDFError"
    /\ result.status_code = None

(***************************************************************************)
(* C9: the decoder is lazy and forward-only: a line is read only while a   *)
(* request of the consumer is unanswered and after the events of all       *)
(* frames completed so far were handed over; lines are read one at a time  *)
(* in order, and the events handed over only grow, one at a time.          *)
(***************************************************************************)
C9_LazyForwardOnly ==
    [][ /\ consumed' # consumed =>
            /\ next_calls > Len(delivered)
            /\ Len(delivered) = Cardinality(Terminators(consumed))
            /\ Len(consumed') = Len(consumed) + 1
            /\ SubSeq(consumed', 1, Len(consumed)) = consumed
        /\ delivered' # delivered =>
            /\ Len(delivered') = Len(delivered) + 1
            /\ SubSeq(delivered', 1, Len(delivered)) = delivered
            /\ Terminates(consumed', Len(consumed'))
            /\ Len(delivered') = next_calls' ]_vars

\* the second event was handed over on the second request, after four lines
C9_Witness ==
    /\ gen_pc = "yielded"
    /\ Len(delivered) = 2
    /\ next_calls = 2
    /\ Len(consumed) = 4

(***************************************************************************)
(* C10: after every emitted event the state is event type "message" with   *)
(* no pending data, whether or not the payload was JSON; a line that is    *)
(* neither event:, data: nor a blank line with pending data changes        *)
(* nothing; so each event's type is the trimmed remainder of the last      *)
(* event: line since the previous emission, and "message" without one.     *)
(***************************************************************************)
C10_TypeAndReset ==
    LET T == Ascending(Terminators(consumed))
    IN  /\ [n \in 1..Len(delivered) |-> delivered[n].event]
             = [n \in 1..Len(T) |-> TypeAt(consumed, T[n])]
        /\ gen_pc = "running" =>
             /\ event_type = TypeAt(consumed, Len(consumed) + 1)
             /\ data_lines = PendingAt(consumed, Len(consumed) + 1)

\* a "page" event with a non-JSON payload was emitted, the state was reset
\* on the next request, and an ignored line was read after it
C10_Witness ==
    /\ gen_pc = "running"
    /\ Len(delivered) = 1
    /\ delivered[1].event = <<"p", "a", "g", "e">>
    /\ DictHas(delivered[1].data, <<"r", "a", "w">>)
    /\ Len(consumed) = 4
    /\ consumed[4] = <<":", " ", "x">>
    /\ event_type = <<"m", "e", "s", "s", "a", "g", "e">>
    /\ data_lines = <<>>

====
